---- MODULE Spec2Model ----
(***************************************************************************)
(* nexusq: a bounded multi-producer multi-consumer broadcast channel.      *)
(*                                                                         *)
(* The model follows the channel handles of src/src/channel (SenderCore,   *)
(* ReceiverCore, ObservableCell) over the shared core of                   *)
(* src/src/broadcast/mod.rs (claimed, committed, ring, reader_move,        *)
(* writer_move, readers) and the receiver tracker of                       *)
(* src/src/broadcast/receiver_tracker.rs.  Every shared-memory access of a *)
(* handler is one step; thread-local computation is folded into the step   *)
(* of the shared access that precedes it.                                  *)
(*                                                                         *)
(* A message is [seq |-> its sequence id, val |-> <<producer, k>>] where   *)
(* k counts the producer's sends from 0; seq is bookkeeping that names     *)
(* the message a slot holds.                                               *)
(***************************************************************************)
EXTENDS Integers, Sequences, FiniteSets

\* ------------------------------------------------------------- bounds
MaxCapacity == 2    \* capacities 1..MaxCapacity are explored
MaxSends == 3       \* sequence ids 0..MaxSends-1 are handed out
MaxHandles == 2     \* receiver handles ever created on one channel
WordBits == 8       \* width of usize/isize in the model
MaxOut == 2         \* capacities 1..MaxOut of a result vector are explored

\* tests::two_writer_two_reader: test(num, 2, 2, 10, ..)
NumWriters == 2
NumReaders == 2

Senders == 1..NumWriters
Readers == 1..NumReaders
Handles == 1..MaxHandles
Clients == 1..NumReaders

\* ---------------------------------------------------- machine integers
RECURSIVE Pow2(_)
Pow2(n) == IF n = 0 THEN 1 ELSE 2 * Pow2(n - 1)
USIZE_MOD == Pow2(WordBits)
ISIZE_MAX == Pow2(WordBits - 1) - 1
DEAD_CELL == ISIZE_MAX + 1
AsIsize(u) == IF u > ISIZE_MAX THEN u - USIZE_MOD ELSE u
AsUsize(i) == IF i < 0 THEN i + USIZE_MOD ELSE i

Min(a, b) == IF a < b THEN a ELSE b

VARIABLES
    capacity,       \* Core.capacity
    claimed,        \* Core.claimed
    committed,      \* Core.committed
    ring,           \* Core.ring: slot index -> message
    cells,          \* ReceiverTracker.receiver_cells (index 0 is cells[1])
    deadCells,      \* ReceiverTracker.dead_cells
    slowest_cache,  \* ReceiverTracker.slowest_cache
    spc,            \* sender: position in send
    sid,            \* sender: claimed_id
    scached,        \* sender: cached_slowest_reader
    snth,           \* sender: number of completed sends
    rpc,            \* receiver: position in its current operation
    cursor,         \* receiver: internal_cursor
    rcell,          \* receiver: index of its shared_cursor cell
    rat,            \* receiver: `at` while it registers
    rparent,        \* receiver: the handle it is cloned from (0: none)
    rlisten,        \* receiver: listener on writer_move (0 none, 1 listening, 2 notified)
    rstart,         \* bookkeeping: position a receiver registered at
    received,       \* bookkeeping: messages each recv obtained, in order
    claims,         \* bookkeeping: the id and the value of every claim, in claim order
    written,        \* bookkeeping: ids whose slot write has completed
    sn,             \* sender: number of values of the send in progress (data.len())
    sk,             \* sender: values of the batch written so far
    rres,           \* receiver: result of its last try_read_next / batch_recv
    out,            \* receiver: the `result` vector handed to batch_recv
    outcap,         \* result.capacity()
    rn,             \* receiver: num_to_read of the batch_recv in progress
    counters,       \* BroadcastTracker.counters
    num_receivers,  \* BroadcastTracker.num_receivers
    tail,           \* BroadcastTracker.tail
    tpc,            \* tracker client: position in its current tracker call
    tpos,           \* tracker client: the position it holds (`from` / `at`)
    tto,            \* tracker client: `to` of the move_receiver in progress
    tprev,          \* tracker client: `previous`, the result of its fetch_sub
    wpc,            \* producer in wait_for_tail: position in the loop
    wexp,           \* producer in wait_for_tail: expected_tail
    size,           \* the buffer size asked of channel(size)
    cres,           \* the result of channel(size)
    sold,           \* sender: old_value, the payloads its slot writes took out
    drops,          \* bookkeeping: destructor runs per payload id (-1: never-written memory)
    rdropped,       \* the ring has been dropped
    published,      \* SequentialProducerTracker.published
    sbatch          \* sender: the send in progress is a send_batch

vars == <<capacity, claimed, committed, ring, cells, deadCells, slowest_cache,
          spc, sid, scached, snth, rpc, cursor, rcell, rat, rparent, rlisten,
          rstart, received, claims, written, sn, sk, rres, out, outcap, rn,
          counters, num_receivers, tail, tpc, tpos, tto, tprev, wpc, wexp,
          size, cres, sold, drops, rdropped, published, sbatch>>

coreVars == <<capacity, claimed, committed, ring>>
trackerVars == <<cells, deadCells, slowest_cache>>
senderVars == <<spc, sid, scached, snth>>
receiverVars == <<rpc, cursor, rcell, rat, rparent, rlisten, rstart, received>>
ghostVars == <<claims, written>>
txVars == <<sn, sk, sbatch>>
rxVars == <<rres, out, outcap, rn>>
btVars == <<counters, num_receivers, tail, tpc, tpos, tto, tprev, wpc, wexp>>
ctorVars == <<size, cres>>
ptVars == <<published>>
dropVars == <<sold, drops, rdropped>>
chanVars == <<coreVars, trackerVars, senderVars, receiverVars, ghostVars, txVars, rxVars>>

Uninit == [seq |-> -1, val |-> <<0, 0>>]

\* ------------------------------------------------------------ tracker
\* The scan of ReceiverTracker::slowest over cells i..Len: the first live
\* position <= min ends it (found), otherwise the minimum of the live ones.
RECURSIVE ScanCells(_, _, _, _)
ScanCells(cs, i, min, slowest) ==
    IF i > Len(cs) THEN [found |-> FALSE, value |-> slowest]
    ELSE IF cs[i] = DEAD_CELL THEN ScanCells(cs, i + 1, min, slowest)
    ELSE IF AsIsize(cs[i]) <= min THEN [found |-> TRUE, value |-> AsIsize(cs[i])]
    ELSE ScanCells(cs, i + 1, min, Min(slowest, AsIsize(cs[i])))

\* A tracker that answers without looking at the receiver cells.
SlowestNoScan(min) == [value |-> ISIZE_MAX, cache |-> slowest_cache]

\* ReceiverTracker::slowest(min): the value returned and the cache it leaves.
Slowest(min) ==
    IF slowest_cache > min
    THEN [value |-> slowest_cache, cache |-> slowest_cache]
    ELSE LET scan == ScanCells(cells, 1, min, ISIZE_MAX)
         IN  [value |-> scan.value,
              cache |-> IF scan.found THEN slowest_cache ELSE scan.value]

\* ------------------------------------------------------------- sender
TailOf(s) == sid[s] - capacity

\* A claim whose read of claimed and whose increment are not one atomic step:
\* the id is taken from a stale read when another producer is mid-send.
ClaimStale(s) ==
    /\ spc[s] = "idle"
    /\ claimed < MaxSends
    /\ claimed' = claimed + 1
    /\ LET id == IF \E t \in Senders : spc[t] # "idle" THEN claimed - 1 ELSE claimed
       IN  /\ sid' = [sid EXCEPT ![s] = id]
           /\ claims' = Append(claims, [id |-> id, val |-> <<s, snth[s]>>])
    /\ spc' = [spc EXCEPT ![s] = "slowest0"]
    /\ UNCHANGED <<ptVars, ctorVars, dropVars, btVars, txVars, rxVars, capacity, committed, ring, trackerVars, scached, snth,
                   receiverVars, written>>

\* SenderCore::claim up to the first tail check: the fetch_add and the fast path.
Claim(s) ==
    /\ spc[s] = "idle"
    /\ claimed < MaxSends
    /\ claimed' = claimed + 1
    /\ sid' = [sid EXCEPT ![s] = claimed]
    /\ claims' = Append(claims, [id |-> claimed, val |-> <<s, snth[s]>>])
    /\ LET claimTail == claimed - capacity
       IN  spc' = [spc EXCEPT ![s] =
                IF claimTail < -1 \/ (scached[s] # -1 /\ scached[s] > claimTail)
                THEN "write" ELSE "slowest0"]
    /\ UNCHANGED <<ptVars, ctorVars, dropVars, btVars, txVars, rxVars, capacity, committed, ring, trackerVars, scached, snth,
                   receiverVars, written>>

\* One call of readers.slowest(tail) in SenderCore::claim and the test of its result.
ClaimSlowest(s, from, blocked) ==
    /\ spc[s] = from
    /\ LET r == Slowest(TailOf(s))
       IN  /\ slowest_cache' = r.cache
           /\ IF r.value <= TailOf(s)
              THEN /\ spc' = [spc EXCEPT ![s] = blocked]
                   /\ UNCHANGED scached
              ELSE /\ spc' = [spc EXCEPT ![s] = "write"]
                   /\ scached' = [scached EXCEPT ![s] = r.value]
    /\ UNCHANGED <<ptVars, ctorVars, dropVars, btVars, txVars, rxVars, coreVars, cells, deadCells, sid, snth, receiverVars, ghostVars>>

\* The call before the wait loop.
ClaimSlowest0(s) == ClaimSlowest(s, "slowest0", "listen")

\* reader_move.listen()
ClaimListen(s) ==
    /\ spc[s] = "listen"
    /\ spc' = [spc EXCEPT ![s] = "slowest1"]
    /\ UNCHANGED <<ptVars, ctorVars, dropVars, btVars, txVars, rxVars, coreVars, trackerVars, sid, scached, snth, receiverVars, ghostVars>>

\* The check after the listener is registered; a sender that fails it calls
\* listener.wait(), which returns only on reader_move.notify.
ClaimSlowest1(s) == ClaimSlowest(s, "slowest1", "parked")

\* The slot write of SenderCore::internal_send: mem::replace hands the slot's
\* previous contents to old_value.
Write(s) ==
    /\ spc[s] = "write"
    /\ sn[s] = 1
    /\ ~sbatch[s]
    /\ ring' = [ring EXCEPT ![AsUsize(sid[s]) % capacity] =
                    [seq |-> sid[s], val |-> <<s, snth[s]>>]]
    /\ sold' = [sold EXCEPT ![s] = <<ring[AsUsize(sid[s]) % capacity].seq>>]
    /\ written' = written \cup {sid[s]}
    /\ spc' = [spc EXCEPT ![s] = "publish"]
    /\ UNCHANGED <<ptVars, ctorVars, drops, rdropped, btVars, txVars, rxVars, capacity, claimed, committed, trackerVars, sid, scached, snth,
                   receiverVars, claims>>

\* A publish that stores its id without waiting for committed = id - 1.
PublishUnordered(s) ==
    /\ spc[s] = "publish"
    /\ committed' = sid[s]
    /\ spc' = [spc EXCEPT ![s] = "notify"]
    /\ UNCHANGED <<ptVars, ctorVars, dropVars, btVars, txVars, rxVars, capacity, claimed, ring, trackerVars, sid, scached, snth,
                   receiverVars, ghostVars>>

\* The compare_exchange loop on committed: it leaves the loop when it succeeds.
Publish(s) ==
    /\ spc[s] = "publish"
    /\ committed = sid[s] - 1
    /\ committed' = sid[s]
    /\ spc' = [spc EXCEPT ![s] = "notify"]
    /\ UNCHANGED <<ptVars, ctorVars, dropVars, btVars, txVars, rxVars, capacity, claimed, ring, trackerVars, sid, scached, snth,
                   receiverVars, ghostVars>>

\* The number of times id i occurs in the sequence of old values olds.
Count(olds, i) == Cardinality({k \in 1..Len(olds) : olds[k] = i})

\* The destructor runs on every value of olds.
Dropped(olds) == [i \in DOMAIN drops |-> drops[i] + Count(olds, i)]

\* writer_move.notify(usize::MAX), forget or drop of old_value, and the
\* return of send.
NotifyWriterMove(s) ==
    /\ spc[s] = "notify"
    /\ rlisten' = [h \in DOMAIN rlisten |-> IF rlisten[h] = 1 THEN 2 ELSE rlisten[h]]
    /\ snth' = [snth EXCEPT ![s] = @ + 1]
    /\ drops' = IF AsUsize(sid[s]) < capacity THEN drops ELSE Dropped(sold[s])
    /\ sold' = [sold EXCEPT ![s] = <<>>]
    /\ spc' = [spc EXCEPT ![s] = "idle"]
    /\ UNCHANGED <<ptVars, ctorVars, rdropped, btVars, txVars, rxVars, coreVars, trackerVars, sid, scached, rpc, cursor, rcell, rat,
                   rparent, rstart, received, ghostVars>>

SenderNext(s) ==
    \/ Claim(s)
    \/ ClaimSlowest0(s)
    \/ ClaimListen(s)
    \/ ClaimSlowest1(s)
    \/ Write(s)
    \/ Publish(s)
    \/ NotifyWriterMove(s)

\* ----------------------------------------------------------- receiver
Live(h) ==
    rpc[h] \in {"idle", "cloning", "listen", "try2", "wait", "try3", "read", "inc",
                "tread", "tinc", "copy", "copy2"}

\* The test of ReceiverCore::try_read_next: the load of committed.
TryReadNext(h, from, nodata) ==
    /\ rpc[h] = from
    /\ IF cursor[h] > committed
       THEN /\ rpc' = [rpc EXCEPT ![h] = nodata]
            /\ UNCHANGED rlisten
       ELSE /\ rpc' = [rpc EXCEPT ![h] = "read"]
            /\ rlisten' = [rlisten EXCEPT ![h] = 0]
    /\ UNCHANGED <<ptVars, ctorVars, dropVars, btVars, txVars, rxVars, coreVars, trackerVars, senderVars, cursor, rcell, rat, rparent,
                   rstart, received, ghostVars>>

\* recv: the immediate try_read_next.  A handle calls recv at most MaxSends
\* times (read_n of the tests reads as many values as are sent).
RecvTry(h) ==
    /\ Len(received[h]) < MaxSends
    /\ TryReadNext(h, "idle", "listen")

\* recv: writer_move.listen()
RecvListen(h) ==
    /\ rpc[h] = "listen"
    /\ rlisten' = [rlisten EXCEPT ![h] = 1]
    /\ rpc' = [rpc EXCEPT ![h] = "try2"]
    /\ UNCHANGED <<ptVars, ctorVars, dropVars, btVars, txVars, rxVars, coreVars, trackerVars, senderVars, cursor, rcell, rat, rparent,
                   rstart, received, ghostVars>>

\* A recv that parks right after registering its listener, without the
\* second look at committed.
RecvTry2NoRecheck(h) ==
    /\ rpc[h] = "try2"
    /\ rpc' = [rpc EXCEPT ![h] = "wait"]
    /\ UNCHANGED <<ptVars, ctorVars, dropVars, btVars, txVars, rxVars, coreVars, trackerVars, senderVars, cursor, rcell, rat, rparent,
                   rlisten, rstart, received, ghostVars>>

\* recv: the try after the listener is registered.
RecvTry2(h) == TryReadNext(h, "try2", "wait")

\* recv: listener.wait() returns once writer_move was notified.
RecvWait(h) ==
    /\ rpc[h] = "wait"
    /\ rlisten[h] = 2
    /\ rlisten' = [rlisten EXCEPT ![h] = 0]
    /\ rpc' = [rpc EXCEPT ![h] = "try3"]
    /\ UNCHANGED <<ptVars, ctorVars, dropVars, btVars, txVars, rxVars, coreVars, trackerVars, senderVars, cursor, rcell, rat, rparent,
                   rstart, received, ghostVars>>

\* recv: the try after the wait; without data the loop starts over.
RecvTry3(h) == TryReadNext(h, "try3", "listen")

\* try_read_next: the clone of the slot at the cursor.
RecvRead(h) ==
    /\ rpc[h] = "read"
    /\ received' = [received EXCEPT ![h] = Append(@, ring[AsUsize(cursor[h]) % capacity])]
    /\ rpc' = [rpc EXCEPT ![h] = "inc"]
    /\ UNCHANGED <<ptVars, ctorVars, dropVars, btVars, txVars, rxVars, coreVars, trackerVars, senderVars, cursor, rcell, rat, rparent,
                   rlisten, rstart, ghostVars>>

\* An increment_cursor that stores the shared cell but leaves internal_cursor.
IncrementCursorStuck(h) ==
    /\ rpc[h] = "inc"
    /\ cells' = [cells EXCEPT ![rcell[h] + 1] = AsUsize(cursor[h] + 1)]
    /\ rpc' = [rpc EXCEPT ![h] = "idle"]
    /\ UNCHANGED <<ptVars, ctorVars, dropVars, btVars, txVars, rxVars, coreVars, deadCells, slowest_cache, senderVars, cursor, rcell, rat,
                   rparent, rlisten, rstart, received, ghostVars>>

\* increment_cursor: internal_cursor += 1 and the store into the shared cell
\* (ObservableCell::store notifies the cell's own event, which has no listener).
IncrementCursor(h) ==
    /\ rpc[h] = "inc"
    /\ cursor' = [cursor EXCEPT ![h] = @ + 1]
    /\ cells' = [cells EXCEPT ![rcell[h] + 1] = AsUsize(cursor[h] + 1)]
    /\ rpc' = [rpc EXCEPT ![h] = "idle"]
    /\ UNCHANGED <<ptVars, ctorVars, dropVars, btVars, txVars, rxVars, coreVars, deadCells, slowest_cache, senderVars, rcell, rat,
                   rparent, rlisten, rstart, received, ghostVars>>

RecvNext(h) ==
    \/ RecvTry(h)
    \/ RecvListen(h)
    \/ RecvTry2(h)
    \/ RecvWait(h)
    \/ RecvTry3(h)
    \/ RecvRead(h)
    \/ IncrementCursor(h)

\* ---------------------------------------------------- the test harness
\* channel(capacity) has returned Ok.
Constructed ==
    /\ size = capacity
    /\ cres = "Ok"

\* No payload has been dropped, no sender holds an old value, the ring is alive.
\* SequentialProducerTracker::new
ProducerTrackerNew == published = -1

NoDrops ==
    /\ sold = [s \in Senders |-> <<>>]
    /\ drops = [i \in -1..(MaxSends - 1) |-> 0]
    /\ rdropped = FALSE

\* No send_batch and no batch_recv is in progress and no result vector is in use.
NoBatch ==
    /\ sn = [s \in Senders |-> 1]
    /\ sk = [s \in Senders |-> 0]
    /\ sbatch = [s \in Senders |-> FALSE]
    /\ rres = [h \in DOMAIN rpc |-> "none"]
    /\ out = [h \in DOMAIN rpc |-> <<>>]
    /\ outcap = [h \in DOMAIN rpc |-> 0]
    /\ rn = [h \in DOMAIN rpc |-> 0]

\* BroadcastTracker::new(capacity) with no call made on it.
TrackerNew ==
    /\ counters = [i \in 0..capacity |-> 0]
    /\ num_receivers = 0
    /\ tail = 0
    /\ tpc = [r \in Clients |-> "none"]
    /\ tpos = [r \in Clients |-> 0]
    /\ tto = [r \in Clients |-> 0]
    /\ tprev = [r \in Clients |-> 0]
    /\ wpc = "idle"
    /\ wexp = 0

\* tests::test after its set-up: the receiver of channel() was cloned once per
\* reader and dropped, the senders are fresh clones, nothing was sent.
TestInit ==
    /\ capacity \in 1..MaxCapacity
    /\ claimed = 0
    /\ committed = -1
    /\ ring = [i \in 0..(capacity - 1) |-> Uninit]
    /\ cells = <<DEAD_CELL>> \o [h \in Readers |-> 0]
    /\ deadCells = <<0>>
    /\ slowest_cache = -1
    /\ spc = [s \in Senders |-> "idle"]
    /\ sid = [s \in Senders |-> 0]
    /\ scached = [s \in Senders |-> -1]
    /\ snth = [s \in Senders |-> 0]
    /\ rpc = [h \in Readers |-> "idle"]
    /\ cursor = [h \in Readers |-> 0]
    /\ rcell = [h \in Readers |-> h]
    /\ rat = [h \in Readers |-> 0]
    /\ rparent = [h \in Readers |-> 0]
    /\ rlisten = [h \in Readers |-> 0]
    /\ rstart = [h \in Readers |-> 0]
    /\ received = [h \in Readers |-> <<>>]
    /\ claims = <<>>
    /\ written = {}
    /\ NoBatch
    /\ TrackerNew
    /\ Constructed
    /\ NoDrops
    /\ ProducerTrackerNew

TestNext ==
    \/ \E s \in Senders : SenderNext(s)
    \/ \E h \in Readers : RecvNext(h)

TestSpec == TestInit /\ [][TestNext]_vars

\* The harness under fair scheduling: every writer thread and every reader
\* thread that can take a step eventually takes one.
FairTestSpec ==
    /\ TestSpec
    /\ \A s \in Senders : WF_vars(SenderNext(s))
    /\ \A h \in Readers : WF_vars(RecvNext(h))

\* tests::single_writer_two_reader under fair scheduling: test(num, 1, 2, 10, ..).
WakeNext ==
    \/ SenderNext(1)
    \/ \E h \in Readers : RecvNext(h)

FairWakeSpec ==
    /\ TestInit
    /\ [][WakeNext]_vars
    /\ WF_vars(SenderNext(1))
    /\ \A h \in Readers : WF_vars(RecvNext(h))

\* ---------------------------------------------------------- lifecycle
\* ReceiverCore::from(Arc<Core>), reached by add_stream and new_receiver: the
\* load of committed that chooses the position to register at.
NewReceiver(h) ==
    /\ rpc[h] = "none"
    /\ rat' = [rat EXCEPT ![h] = IF committed < 0 THEN 0 ELSE Min(committed, ISIZE_MAX)]
    /\ rparent' = [rparent EXCEPT ![h] = 0]
    /\ rpc' = [rpc EXCEPT ![h] = "register"]
    /\ UNCHANGED <<ptVars, ctorVars, dropVars, btVars, txVars, rxVars, coreVars, trackerVars, senderVars, cursor, rcell, rlisten,
                   rstart, received, ghostVars>>

\* ReceiverCore::clone: the position is the internal_cursor of the handle that
\* is cloned; that handle is borrowed until clone returns.
CloneReceiver(h, p) ==
    /\ rpc[h] = "none"
    /\ rpc[p] = "idle"
    /\ rat' = [rat EXCEPT ![h] = cursor[p]]
    /\ rparent' = [rparent EXCEPT ![h] = p]
    /\ rpc' = [rpc EXCEPT ![h] = "register", ![p] = "cloning"]
    /\ UNCHANGED <<ptVars, ctorVars, dropVars, btVars, txVars, rxVars, coreVars, trackerVars, senderVars, cursor, rcell, rlisten,
                   rstart, received, ghostVars>>

\* The handle is constructed: its borrow of the cloned handle ends.
Registered(h, c) ==
    /\ cursor' = [cursor EXCEPT ![h] = c]
    /\ rstart' = [rstart EXCEPT ![h] = rat[h]]
    /\ rpc' = [p \in DOMAIN rpc |-> IF p = h THEN "idle"
                                    ELSE IF p = rparent[h] THEN "idle" ELSE rpc[p]]

\* ReceiverTracker::new_receiver: dead_cells.pop_front(); without a dead cell the
\* new cell is pushed, and the handle reads its own fresh cell.
RegisterPop(h) ==
    /\ rpc[h] = "register"
    /\ IF deadCells # <<>>
       THEN /\ rcell' = [rcell EXCEPT ![h] = Head(deadCells)]
            /\ deadCells' = Tail(deadCells)
            /\ rpc' = [rpc EXCEPT ![h] = "store"]
            /\ UNCHANGED <<cells, cursor, rstart>>
       ELSE /\ cells' = Append(cells, AsUsize(rat[h]))
            /\ rcell' = [rcell EXCEPT ![h] = Len(cells)]
            /\ Registered(h, AsIsize(AsUsize(rat[h])))
            /\ UNCHANGED deadCells
    /\ UNCHANGED <<ptVars, ctorVars, dropVars, btVars, txVars, rxVars, coreVars, slowest_cache, senderVars, rat, rparent, rlisten,
                   received, ghostVars>>

\* ReceiverTracker::new_receiver: cell.store(at) into the reused cell.
RegisterStore(h) ==
    /\ rpc[h] = "store"
    /\ cells' = [cells EXCEPT ![rcell[h] + 1] = AsUsize(rat[h])]
    /\ rpc' = [rpc EXCEPT ![h] = "load"]
    /\ UNCHANGED <<ptVars, ctorVars, dropVars, btVars, txVars, rxVars, coreVars, deadCells, slowest_cache, senderVars, cursor, rcell,
                   rat, rparent, rlisten, rstart, received, ghostVars>>

\* internal_cursor = shared_cursor.load() in from/clone.
RegisterLoad(h) ==
    /\ rpc[h] = "load"
    /\ Registered(h, AsIsize(cells[rcell[h] + 1]))
    /\ UNCHANGED <<ptVars, ctorVars, dropVars, btVars, txVars, rxVars, coreVars, trackerVars, senderVars, rcell, rat, rparent, rlisten,
                   received, ghostVars>>

\* Drop for ReceiverCore -> ReceiverTracker::kill_receiver: dead_cells.push_back(index).
DropPush(h) ==
    /\ rpc[h] = "idle"
    /\ deadCells' = Append(deadCells, rcell[h])
    /\ rpc' = [rpc EXCEPT ![h] = "kill"]
    /\ UNCHANGED <<ptVars, ctorVars, dropVars, btVars, txVars, rxVars, coreVars, cells, slowest_cache, senderVars, cursor, rcell, rat,
                   rparent, rlisten, rstart, received, ghostVars>>

\* kill_receiver: cell.kill() stores DEAD_CELL.
DropKill(h) ==
    /\ rpc[h] = "kill"
    /\ cells' = [cells EXCEPT ![rcell[h] + 1] = DEAD_CELL]
    /\ rpc' = [rpc EXCEPT ![h] = "dropped"]
    /\ UNCHANGED <<ptVars, ctorVars, dropVars, btVars, txVars, rxVars, coreVars, deadCells, slowest_cache, senderVars, cursor, rcell,
                   rat, rparent, rlisten, rstart, received, ghostVars>>

LifecycleNext(h) ==
    \/ NewReceiver(h)
    \/ \E p \in Handles : CloneReceiver(h, p)
    \/ RegisterPop(h)
    \/ RegisterStore(h)
    \/ RegisterLoad(h)
    \/ DropPush(h)
    \/ DropKill(h)

\* -------------------------------------------------------- the program
\* channel(capacity): one receiver registered at 0, nothing sent; the other
\* handles do not exist yet.
Init ==
    /\ capacity \in 1..MaxCapacity
    /\ claimed = 0
    /\ committed = -1
    /\ ring = [i \in 0..(capacity - 1) |-> Uninit]
    /\ cells = <<0>>
    /\ deadCells = <<>>
    /\ slowest_cache = -1
    /\ spc = [s \in Senders |-> "idle"]
    /\ sid = [s \in Senders |-> 0]
    /\ scached = [s \in Senders |-> -1]
    /\ snth = [s \in Senders |-> 0]
    /\ rpc = [h \in Handles |-> IF h = 1 THEN "idle" ELSE "none"]
    /\ cursor = [h \in Handles |-> 0]
    /\ rcell = [h \in Handles |-> 0]
    /\ rat = [h \in Handles |-> 0]
    /\ rparent = [h \in Handles |-> 0]
    /\ rlisten = [h \in Handles |-> 0]
    /\ rstart = [h \in Handles |-> 0]
    /\ received = [h \in Handles |-> <<>>]
    /\ claims = <<>>
    /\ written = {}
    /\ NoBatch
    /\ TrackerNew
    /\ Constructed
    /\ NoDrops
    /\ ProducerTrackerNew


Next ==
    \/ \E s \in Senders : SenderNext(s)
    \/ \E h \in Handles : RecvNext(h)
    \/ \E h \in Handles : LifecycleNext(h)

Spec == Init /\ [][Next]_vars

\* --------------------------------------------------------- send_batch
\* The ghost record of the ids start..start+n-1 that one claim(n) hands out.
BatchClaims(s, start, n) == [i \in 1..n |-> [id |-> start + i - 1, val |-> <<s, snth[s] + i - 1>>]]

\* send_batch(data) with data.len() = n: SenderCore::claim(n) up to the first
\* tail check.  claim answers InputTooLarge for n > capacity.
ClaimBatch(s, n) ==
    /\ spc[s] = "idle"
    /\ n <= capacity
    /\ claimed + n <= MaxSends
    /\ claimed' = claimed + n
    /\ sid' = [sid EXCEPT ![s] = claimed]
    /\ sn' = [sn EXCEPT ![s] = n]
    /\ sbatch' = [sbatch EXCEPT ![s] = TRUE]
    /\ claims' = claims \o BatchClaims(s, claimed, n)
    /\ LET claimTail == claimed - capacity
       IN  spc' = [spc EXCEPT ![s] =
                IF claimTail < -1 \/ (scached[s] # -1 /\ scached[s] > claimTail)
                THEN "write" ELSE "slowest0"]
    /\ UNCHANGED <<ptVars, ctorVars, dropVars, btVars, rxVars, capacity, committed, ring, trackerVars, scached, snth, sk,
                   receiverVars, written>>

\* internal_send_batch: end_index < capacity, the branch that swaps the whole
\* slice with the ring and keeps the old values in data.
SwapsSlice(s) == (sid[s] % capacity) + sn[s] < capacity

\* internal_send_batch: one value of data is moved into its slot (one
\* element of the slice swap, or one turn of the loop, which forgets the old
\* value while index < capacity and drops it otherwise).
SendBatchWrite(s) ==
    /\ spc[s] = "write"
    /\ sbatch[s]
    /\ LET id == sid[s] + sk[s]
           index == (sid[s] % capacity) + sk[s]
           old == ring[AsUsize(id) % capacity].seq
       IN  /\ ring' = [ring EXCEPT ![AsUsize(id) % capacity] =
                           [seq |-> id, val |-> <<s, snth[s] + sk[s]>>]]
           /\ written' = written \cup {id}
           /\ IF SwapsSlice(s)
              THEN /\ sold' = [sold EXCEPT ![s] = Append(@, old)]
                   /\ UNCHANGED drops
              ELSE /\ drops' = IF index < capacity THEN drops ELSE Dropped(<<old>>)
                   /\ UNCHANGED sold
    /\ sk' = [sk EXCEPT ![s] = @ + 1]
    /\ spc' = [spc EXCEPT ![s] = IF sk[s] + 1 = sn[s] THEN "bpublish" ELSE "write"]
    /\ UNCHANGED <<ptVars, ctorVars, rdropped, btVars, rxVars, capacity, claimed, committed, trackerVars, sid, scached, snth, sn, sbatch,
                   receiverVars, claims>>

\* internal_send_batch: the compare_exchange loop on committed, from
\* start_id - 1 to start_id + total_num - 1.
SendBatchPublish(s) ==
    /\ spc[s] = "bpublish"
    /\ committed = sid[s] - 1
    /\ committed' = sid[s] + sn[s] - 1
    /\ spc' = [spc EXCEPT ![s] = "bnotify"]
    /\ UNCHANGED <<ptVars, ctorVars, dropVars, btVars, txVars, rxVars, capacity, claimed, ring, trackerVars, sid, scached, snth,
                   receiverVars, ghostVars>>

\* internal_send_batch: writer_move.notify(usize::MAX), and the return of
\* send_batch, where data (the old values of a swapped slice) is forgotten for
\* start_id < capacity and dropped otherwise.
SendBatchNotify(s) ==
    /\ spc[s] = "bnotify"
    /\ rlisten' = [h \in DOMAIN rlisten |-> IF rlisten[h] = 1 THEN 2 ELSE rlisten[h]]
    /\ snth' = [snth EXCEPT ![s] = @ + sn[s]]
    /\ sn' = [sn EXCEPT ![s] = 1]
    /\ sk' = [sk EXCEPT ![s] = 0]
    /\ sbatch' = [sbatch EXCEPT ![s] = FALSE]
    /\ drops' = IF sid[s] < capacity THEN drops ELSE Dropped(sold[s])
    /\ sold' = [sold EXCEPT ![s] = <<>>]
    /\ spc' = [spc EXCEPT ![s] = "idle"]
    /\ UNCHANGED <<ptVars, ctorVars, rdropped, btVars, rxVars, coreVars, trackerVars, sid, scached, rpc, cursor, rcell, rat,
                   rparent, rstart, received, ghostVars>>

\* A claim that takes its ids before it looks at the size of the batch.
InputTooLargeAfterClaim(s, n) ==
    /\ spc[s] = "idle"
    /\ n > capacity
    /\ claimed' = claimed + n
    /\ sn' = [sn EXCEPT ![s] = n]
    /\ spc' = [spc EXCEPT ![s] = "too_large"]
    /\ UNCHANGED <<ptVars, ctorVars, dropVars, btVars, rxVars, capacity, committed, ring, trackerVars, sid, scached, snth, sk, sbatch,
                   receiverVars, ghostVars>>

\* send_batch(data) with data.len() = n > capacity: SenderCore::claim(n)
\* returns Err(InputTooLarge) before its fetch_add.
InputTooLarge(s, n) ==
    /\ spc[s] = "idle"
    /\ n > capacity
    /\ sn' = [sn EXCEPT ![s] = n]
    /\ spc' = [spc EXCEPT ![s] = "too_large"]
    /\ UNCHANGED <<ptVars, ctorVars, dropVars, btVars, rxVars, coreVars, trackerVars, sid, scached, snth, sk, sbatch,
                   receiverVars, ghostVars>>

\* send_batch: the `?` hands the error of claim to the caller.
SendBatchFails(s) ==
    /\ spc[s] = "too_large"
    /\ sn' = [sn EXCEPT ![s] = 1]
    /\ spc' = [spc EXCEPT ![s] = "idle"]
    /\ UNCHANGED <<ptVars, ctorVars, dropVars, btVars, rxVars, coreVars, trackerVars, sid, scached, snth, sk, sbatch,
                   receiverVars, ghostVars>>

SendBatchNext(s) ==
    \/ \E n \in 1..MaxCapacity : ClaimBatch(s, n)
    \/ \E n \in 2..(MaxCapacity + 1) : InputTooLarge(s, n)
    \/ SendBatchFails(s)
    \/ SendBatchWrite(s)
    \/ SendBatchPublish(s)
    \/ SendBatchNotify(s)

BatchNext ==
    \/ SenderNext(1)
    \/ SendBatchNext(1)
    \/ \E h \in Readers : RecvNext(h)

\* One writer that calls send and send_batch in any order, and the readers of
\* the harness, registered before the first send.
SendBatchSpec == TestInit /\ [][BatchNext]_vars

\* ------------------------------------------- try_recv and batch_recv
\* ring[a..b]
RingSlice(a, b) == [i \in 1..(b - a) |-> ring[a + i - 1]]
Remaining(h) == outcap[h] - Len(out[h])

\* let mut result = Vec::with_capacity(n): the reader allocates its result
\* vector once; before that it holds Vec::new(), of capacity 0.
WithCapacity(h, n) ==
    /\ rpc[h] = "idle"
    /\ outcap[h] = 0
    /\ outcap' = [outcap EXCEPT ![h] = n]
    /\ UNCHANGED <<ptVars, ctorVars, dropVars, btVars, txVars, coreVars, trackerVars, senderVars, receiverVars, ghostVars,
                   rres, out, rn>>

\* A try_read_next that also answers NoNewData for the newest message.
TryRecvOffByOne(h) ==
    /\ rpc[h] = "idle"
    /\ Len(received[h]) < MaxSends
    /\ IF cursor[h] >= committed
       THEN /\ rres' = [rres EXCEPT ![h] = "TryNoNewData"]
            /\ UNCHANGED rpc
       ELSE /\ rpc' = [rpc EXCEPT ![h] = "tread"]
            /\ UNCHANGED rres
    /\ UNCHANGED <<ptVars, ctorVars, dropVars, btVars, txVars, coreVars, trackerVars, senderVars, ghostVars, cursor, rcell, rat,
                   rparent, rlisten, rstart, received, out, outcap, rn>>

\* try_recv -> try_read_next: the load of committed and the test of the cursor.
TryRecv(h) ==
    /\ rpc[h] = "idle"
    /\ Len(received[h]) < MaxSends
    /\ IF cursor[h] > committed
       THEN /\ rres' = [rres EXCEPT ![h] = "TryNoNewData"]
            /\ UNCHANGED rpc
       ELSE /\ rpc' = [rpc EXCEPT ![h] = "tread"]
            /\ UNCHANGED rres
    /\ UNCHANGED <<ptVars, ctorVars, dropVars, btVars, txVars, coreVars, trackerVars, senderVars, ghostVars, cursor, rcell, rat,
                   rparent, rlisten, rstart, received, out, outcap, rn>>

\* try_read_next: the clone of the slot at the cursor.
TryRecvRead(h) ==
    /\ rpc[h] = "tread"
    /\ received' = [received EXCEPT ![h] = Append(@, ring[AsUsize(cursor[h]) % capacity])]
    /\ rpc' = [rpc EXCEPT ![h] = "tinc"]
    /\ UNCHANGED <<ptVars, ctorVars, dropVars, btVars, txVars, rxVars, coreVars, trackerVars, senderVars, ghostVars, cursor, rcell,
                   rat, rparent, rlisten, rstart>>

\* try_read_next: increment_cursor and Ok(value).
TryRecvIncrement(h) ==
    /\ rpc[h] = "tinc"
    /\ cursor' = [cursor EXCEPT ![h] = @ + 1]
    /\ cells' = [cells EXCEPT ![rcell[h] + 1] = AsUsize(cursor[h] + 1)]
    /\ rres' = [rres EXCEPT ![h] = "TryOk"]
    /\ rpc' = [rpc EXCEPT ![h] = "idle"]
    /\ UNCHANGED <<ptVars, ctorVars, dropVars, btVars, txVars, coreVars, deadCells, slowest_cache, senderVars, ghostVars, rcell, rat,
                   rparent, rlisten, rstart, received, out, outcap, rn>>

\* A batch_recv that looks at the watermark before it looks at the vector.
BatchRecvDataFirst(h) ==
    /\ rpc[h] = "idle"
    /\ IF cursor[h] > committed
       THEN /\ rres' = [rres EXCEPT ![h] = "BatchNoNewData"]
            /\ UNCHANGED <<rpc, rn>>
       ELSE IF Remaining(h) = 0
       THEN /\ rres' = [rres EXCEPT ![h] = "DestinationFull"]
            /\ UNCHANGED <<rpc, rn>>
       ELSE /\ rn' = [rn EXCEPT ![h] = Min(committed + 1 - cursor[h], Remaining(h))]
            /\ rpc' = [rpc EXCEPT ![h] = "copy"]
            /\ UNCHANGED rres
    /\ UNCHANGED <<ptVars, ctorVars, dropVars, btVars, txVars, coreVars, trackerVars, senderVars, ghostVars, cursor, rcell, rat,
                   rparent, rlisten, rstart, received, out, outcap>>

\* batch_recv: the test of the vector's remaining capacity, the load of
\* committed, the test of the cursor, and num_to_read.
BatchRecv(h) ==
    /\ rpc[h] = "idle"
    /\ IF Remaining(h) = 0
       THEN /\ rres' = [rres EXCEPT ![h] = "DestinationFull"]
            /\ UNCHANGED <<rpc, rn>>
       ELSE IF cursor[h] > committed
       THEN /\ rres' = [rres EXCEPT ![h] = "BatchNoNewData"]
            /\ UNCHANGED <<rpc, rn>>
       ELSE /\ rn' = [rn EXCEPT ![h] = Min(committed + 1 - cursor[h], Remaining(h))]
            /\ rpc' = [rpc EXCEPT ![h] = "copy"]
            /\ UNCHANGED rres
    /\ UNCHANGED <<ptVars, ctorVars, dropVars, btVars, txVars, coreVars, trackerVars, senderVars, ghostVars, cursor, rcell, rat,
                   rparent, rlisten, rstart, received, out, outcap>>

\* A copy that stops at the end of the ring.
BatchCopyNoWrap(h) ==
    /\ rpc[h] = "copy"
    /\ LET from_index == cursor[h] % capacity
           to_index == Min(from_index + rn[h], capacity)
       IN  /\ out' = [out EXCEPT ![h] = @ \o RingSlice(from_index, to_index)]
           /\ rres' = [rres EXCEPT ![h] = "BatchOk"]
           /\ rpc' = [rpc EXCEPT ![h] = "idle"]
    /\ UNCHANGED <<ptVars, ctorVars, dropVars, btVars, txVars, coreVars, trackerVars, senderVars, ghostVars, cursor, rcell, rat,
                   rparent, rlisten, rstart, received, outcap, rn>>

\* batch_recv: the copy that does not wrap, which ends the call with Ok(()),
\* or the end section of the copy that wraps.
BatchCopy(h) ==
    /\ rpc[h] = "copy"
    /\ LET from_index == cursor[h] % capacity
           to_index == from_index + rn[h]
       IN  IF to_index <= capacity
           THEN /\ out' = [out EXCEPT ![h] = @ \o RingSlice(from_index, to_index)]
                /\ rres' = [rres EXCEPT ![h] = "BatchOk"]
                /\ rpc' = [rpc EXCEPT ![h] = "idle"]
           ELSE /\ out' = [out EXCEPT ![h] = @ \o RingSlice(from_index, capacity)]
                /\ rpc' = [rpc EXCEPT ![h] = "copy2"]
                /\ UNCHANGED rres
    /\ UNCHANGED <<ptVars, ctorVars, dropVars, btVars, txVars, coreVars, trackerVars, senderVars, ghostVars, cursor, rcell, rat,
                   rparent, rlisten, rstart, received, outcap, rn>>

\* batch_recv: the start section of the copy that wraps, and Ok(()).
BatchCopyStart(h) ==
    /\ rpc[h] = "copy2"
    /\ LET to_index == (cursor[h] % capacity) + rn[h]
       IN  out' = [out EXCEPT ![h] = @ \o RingSlice(0, to_index - capacity)]
    /\ rres' = [rres EXCEPT ![h] = "BatchOk"]
    /\ rpc' = [rpc EXCEPT ![h] = "idle"]
    /\ UNCHANGED <<ptVars, ctorVars, dropVars, btVars, txVars, coreVars, trackerVars, senderVars, ghostVars, cursor, rcell, rat,
                   rparent, rlisten, rstart, received, outcap, rn>>

TryRecvNext(h) ==
    \/ TryRecv(h)
    \/ TryRecvRead(h)
    \/ TryRecvIncrement(h)

BatchRecvNext(h) ==
    \/ \E n \in 1..MaxOut : WithCapacity(h, n)
    \/ BatchRecv(h)
    \/ BatchCopy(h)
    \/ BatchCopyStart(h)

ReceiveNext ==
    \/ SenderNext(1)
    \/ \E h \in Readers : RecvNext(h)
    \/ TryRecvNext(1)
    \/ BatchRecvNext(1)

\* One writer and the readers of the harness, registered before the first
\* send; reader 1 calls recv, try_recv and batch_recv in any order, the other
\* readers call recv.
ReceiveSpec == TestInit /\ [][ReceiveNext]_vars

\* ------------------------------------------------------------- clone
\* One handle more than the program above.
CloneHandles == 1..(MaxHandles + 1)

\* The receiver of channel() (handle 1) reads and is cloned (handle 3) while
\* a second receiver (handle 2) is made by new_receiver and dropped, and one
\* producer sends.
CloneInit ==
    /\ capacity \in 1..MaxCapacity
    /\ claimed = 0
    /\ committed = -1
    /\ ring = [i \in 0..(capacity - 1) |-> Uninit]
    /\ cells = <<0>>
    /\ deadCells = <<>>
    /\ slowest_cache = -1
    /\ spc = [s \in Senders |-> "idle"]
    /\ sid = [s \in Senders |-> 0]
    /\ scached = [s \in Senders |-> -1]
    /\ snth = [s \in Senders |-> 0]
    /\ rpc = [h \in CloneHandles |-> IF h = 1 THEN "idle" ELSE "none"]
    /\ cursor = [h \in CloneHandles |-> 0]
    /\ rcell = [h \in CloneHandles |-> 0]
    /\ rat = [h \in CloneHandles |-> 0]
    /\ rparent = [h \in CloneHandles |-> 0]
    /\ rlisten = [h \in CloneHandles |-> 0]
    /\ rstart = [h \in CloneHandles |-> 0]
    /\ received = [h \in CloneHandles |-> <<>>]
    /\ claims = <<>>
    /\ written = {}
    /\ NoBatch
    /\ TrackerNew
    /\ Constructed
    /\ NoDrops
    /\ ProducerTrackerNew

CloneNext ==
    \/ SenderNext(1)
    \/ \E h \in CloneHandles \ {2} : RecvNext(h)
    \/ NewReceiver(2)
    \/ CloneReceiver(3, 1)
    \/ \E h \in CloneHandles \ {1} :
        \/ RegisterPop(h)
        \/ RegisterStore(h)
        \/ RegisterLoad(h)
    \/ DropPush(2)
    \/ DropKill(2)

CloneSpec == CloneInit /\ [][CloneNext]_vars

\* ------------------------------------------- SequentialProducerTracker
\* make_claim: claimed.fetch_add(1)
MakeClaim(p) ==
    /\ spc[p] = "idle"
    /\ claimed < MaxSends
    /\ sid' = [sid EXCEPT ![p] = claimed]
    /\ claimed' = claimed + 1
    /\ spc' = [spc EXCEPT ![p] = "claim_spin"]
    /\ UNCHANGED <<ptVars, ctorVars, dropVars, btVars, txVars, rxVars, capacity, committed, ring,
                   trackerVars, scached, snth, receiverVars, ghostVars>>

\* A make_claim that returns its id without waiting for committed.
MakeClaimReturnsAtOnce(p) ==
    /\ spc[p] = "claim_spin"
    /\ spc' = [spc EXCEPT ![p] = "claimed"]
    /\ UNCHANGED <<ptVars, ctorVars, dropVars, btVars, txVars, rxVars, coreVars, trackerVars, sid,
                   scached, snth, receiverVars, ghostVars>>

\* make_claim: the load of committed that ends the spin loop, and the return.
MakeClaimReturns(p) ==
    /\ spc[p] = "claim_spin"
    /\ committed = sid[p] - 1
    /\ spc' = [spc EXCEPT ![p] = "claimed"]
    /\ UNCHANGED <<ptVars, ctorVars, dropVars, btVars, txVars, rxVars, coreVars, trackerVars, sid,
                   scached, snth, receiverVars, ghostVars>>

\* commit_claim(id): committed.store(id), by the producer that wrote slot id.
CommitClaim(p) ==
    /\ spc[p] = "claimed"
    /\ committed' = sid[p]
    /\ written' = written \cup {sid[p]}
    /\ spc' = [spc EXCEPT ![p] = "pt_publish"]
    /\ UNCHANGED <<ptVars, ctorVars, dropVars, btVars, txVars, rxVars, capacity, claimed, ring,
                   trackerVars, sid, scached, snth, receiverVars, claims>>

\* A publish that stores the id after its own.
PublishClaimAhead(p) ==
    /\ spc[p] = "pt_publish"
    /\ published = sid[p] - 1
    /\ published' = sid[p] + 1
    /\ snth' = [snth EXCEPT ![p] = @ + 1]
    /\ spc' = [spc EXCEPT ![p] = "idle"]
    /\ UNCHANGED <<ctorVars, dropVars, btVars, txVars, rxVars, coreVars, trackerVars, sid,
                   scached, receiverVars, ghostVars>>

\* publish(id): the compare_exchange of published from id - 1 to id that
\* ends the loop, and wait_strategy.notify().
PublishClaim(p) ==
    /\ spc[p] = "pt_publish"
    /\ published = sid[p] - 1
    /\ published' = sid[p]
    /\ snth' = [snth EXCEPT ![p] = @ + 1]
    /\ spc' = [spc EXCEPT ![p] = "idle"]
    /\ UNCHANGED <<ctorVars, dropVars, btVars, txVars, rxVars, coreVars, trackerVars, sid,
                   scached, receiverVars, ghostVars>>

\* One producer's use of the tracker: claim, write, commit, publish.
ProducerNext(p) ==
    \/ MakeClaim(p)
    \/ MakeClaimReturns(p)
    \/ CommitClaim(p)
    \/ PublishClaim(p)

ProducerTrackerNext == \E p \in Senders : ProducerNext(p)

\* The producers of a channel on its SequentialProducerTracker.
ProducerTrackerSpec == TestInit /\ [][ProducerTrackerNext]_vars

\* ------------------------------------------------------- Drop for Ring
\* The length the vector of slots is given before it is dropped.
DropLen ==
    IF committed < 0 THEN 0
    ELSE IF AsUsize(committed) < capacity THEN AsUsize(committed)
    ELSE capacity

\* The last handle is gone and Drop for Ring runs: the destructor of every
\* slot below the length set from sender_tracker.current().
DropRing ==
    /\ ~rdropped
    /\ \A s \in Senders : spc[s] = "idle"
    /\ \A h \in DOMAIN rpc : rpc[h] \in {"idle", "none", "dropped"}
    /\ drops' = Dropped([k \in 1..DropLen |-> ring[k - 1].seq])
    /\ rdropped' = TRUE
    /\ UNCHANGED <<ptVars, ctorVars, sold, btVars, chanVars>>

DropNext ==
    \/ ~rdropped /\ TestNext
    \/ DropRing

\* Senders and receivers at work, and the drop of the ring after them.
DropSpec == TestInit /\ [][DropNext]_vars

\* ------------------------------------------------------ construction
\* The number of bits of p without its leading zeros.
RECURSIVE BitLen(_)
BitLen(p) == IF p = 0 THEN 0 ELSE 1 + BitLen(p \div 2)

\* usize::one_less_than_next_power_of_two: usize::MAX >> leading_zeros(n - 1).
OneLessThanNextPowerOfTwo(n) ==
    IF n <= 1 THEN 0 ELSE (USIZE_MOD - 1) \div Pow2(WordBits - BitLen(n - 1))

\* A rounding that answers the next power of two above n, also for a power of two.
CheckedNextPowerOfTwoAbove(n) ==
    LET m == OneLessThanNextPowerOfTwo(n + 1)
    IN  IF m + 1 >= USIZE_MOD THEN -1 ELSE m + 1

\* usize::checked_next_power_of_two: checked_add(1) of the above; -1 is None.
CheckedNextPowerOfTwo(n) ==
    LET m == OneLessThanNextPowerOfTwo(n)
    IN  IF m + 1 >= USIZE_MOD THEN -1 ELSE m + 1

\* The consumer tracker's constructor: it refuses a size of zero.
MultiCursorTrackerNew(sz) == IF sz = 0 THEN "InvalidSize" ELSE "Ok"

\* channel(size) is called: nothing exists yet.
ConstructInit ==
    /\ size \in 0..(USIZE_MOD - 1)
    /\ cres = "none"
    /\ capacity = 0
    /\ claimed = 0
    /\ committed = -1
    /\ ring = [i \in {} |-> Uninit]
    /\ cells = <<>>
    /\ deadCells = <<>>
    /\ slowest_cache = -1
    /\ spc = [s \in Senders |-> "idle"]
    /\ sid = [s \in Senders |-> 0]
    /\ scached = [s \in Senders |-> -1]
    /\ snth = [s \in Senders |-> 0]
    /\ rpc = [h \in Handles |-> "none"]
    /\ cursor = [h \in Handles |-> 0]
    /\ rcell = [h \in Handles |-> 0]
    /\ rat = [h \in Handles |-> 0]
    /\ rparent = [h \in Handles |-> 0]
    /\ rlisten = [h \in Handles |-> 0]
    /\ rstart = [h \in Handles |-> 0]
    /\ received = [h \in Handles |-> <<>>]
    /\ claims = <<>>
    /\ written = {}
    /\ NoBatch
    /\ TrackerNew
    /\ NoDrops
    /\ ProducerTrackerNew

\* A Ring::new that does not compare the rounded size with isize::MAX.
RingNewUnchecked ==
    /\ cres = "none"
    /\ LET buffer_size == CheckedNextPowerOfTwo(size)
       IN  IF buffer_size = -1
           THEN /\ cres' = "BufferTooBig"
                /\ UNCHANGED <<capacity, ring, counters>>
           ELSE IF MultiCursorTrackerNew(buffer_size) # "Ok"
           THEN /\ cres' = MultiCursorTrackerNew(buffer_size)
                /\ UNCHANGED <<capacity, ring, counters>>
           ELSE /\ capacity' = buffer_size
                /\ ring' = [i \in 0..(buffer_size - 1) |-> Uninit]
                /\ counters' = [i \in 0..buffer_size |-> 0]
                /\ cres' = "ring"
    /\ UNCHANGED <<ptVars, size, dropVars, claimed, committed, trackerVars, senderVars, receiverVars,
                   ghostVars, txVars, rxVars, num_receivers, tail, tpc, tpos, tto, tprev, wpc, wexp>>

\* Ring::new: the rounding, the two BufferTooBig returns, the slots, and the
\* trackers (`?` on the consumer tracker's constructor).
RingNew ==
    /\ cres = "none"
    /\ LET buffer_size == CheckedNextPowerOfTwo(size)
       IN  IF buffer_size = -1 \/ buffer_size > ISIZE_MAX
           THEN /\ cres' = "BufferTooBig"
                /\ UNCHANGED <<capacity, ring, counters>>
           ELSE IF MultiCursorTrackerNew(buffer_size) # "Ok"
           THEN /\ cres' = MultiCursorTrackerNew(buffer_size)
                /\ UNCHANGED <<capacity, ring, counters>>
           ELSE /\ capacity' = buffer_size
                /\ ring' = [i \in 0..(buffer_size - 1) |-> Uninit]
                /\ counters' = [i \in 0..buffer_size |-> 0]
                /\ cres' = "ring"
    /\ UNCHANGED <<ptVars, size, dropVars, claimed, committed, trackerVars, senderVars, receiverVars,
                   ghostVars, txVars, rxVars, num_receivers, tail, tpc, tpos, tto, tprev, wpc, wexp>>

\* channel_with: the sender and the receiver made of the core; the receiver
\* registers at position 0.
ChannelHandlesNew ==
    /\ cres = "ring"
    /\ cells' = <<0>>
    /\ rpc' = [rpc EXCEPT ![1] = "idle"]
    /\ cres' = "Ok"
    /\ UNCHANGED <<ptVars, size, dropVars, btVars, coreVars, deadCells, slowest_cache, senderVars, cursor,
                   rcell, rat, rparent, rlisten, rstart, received, ghostVars, txVars, rxVars>>

ConstructNext ==
    \/ RingNew
    \/ ChannelHandlesNew

\* channel(size) for every size of the machine word.
ConstructSpec == ConstructInit /\ [][ConstructNext]_vars

\* ------------------------------------------------- BroadcastTracker
CellOf(pos) == pos % (capacity + 1)

\* new_receiver: num_receivers.fetch_add(1)
TNewReceiver(r) ==
    /\ tpc[r] = "none"
    /\ num_receivers' = num_receivers + 1
    /\ tpc' = [tpc EXCEPT ![r] = "new_load"]
    /\ UNCHANGED <<ptVars, ctorVars, dropVars, chanVars, counters, tail, tpos, tto, tprev, wpc, wexp>>

\* new_receiver: tail_pos = tail.load()
TNewLoad(r) ==
    /\ tpc[r] = "new_load"
    /\ tpos' = [tpos EXCEPT ![r] = tail]
    /\ tpc' = [tpc EXCEPT ![r] = "new_add"]
    /\ UNCHANGED <<ptVars, ctorVars, dropVars, chanVars, counters, num_receivers, tail, tto, tprev, wpc, wexp>>

\* new_receiver: counters[tail_pos % len].fetch_add(1); returns tail_pos
TNewCount(r) ==
    /\ tpc[r] = "new_add"
    /\ counters' = [counters EXCEPT ![CellOf(tpos[r])] = @ + 1]
    /\ tpc' = [tpc EXCEPT ![r] = "live"]
    /\ UNCHANGED <<ptVars, ctorVars, dropVars, chanVars, num_receivers, tail, tpos, tto, tprev, wpc, wexp>>

\* A move that does not count the receiver in the cell it moves to.
TMoveToUncounted(r, to) ==
    /\ tpc[r] = "live"
    /\ to > tpos[r]
    /\ to <= tail + capacity
    /\ tto' = [tto EXCEPT ![r] = to]
    /\ tpc' = [tpc EXCEPT ![r] = "move_sub"]
    /\ UNCHANGED <<ptVars, ctorVars, dropVars, chanVars, counters, num_receivers, tail, tpos, tprev, wpc, wexp>>

\* move_receiver(from, to) with to > from: to_cell.fetch_add(1).  A receiver
\* moves by one position per recv and by several per batch, and never beyond
\* what a producer that respects the tail can have published.
TMoveTo(r, to) ==
    /\ tpc[r] = "live"
    /\ to > tpos[r]
    /\ to <= tail + capacity
    /\ tto' = [tto EXCEPT ![r] = to]
    /\ counters' = [counters EXCEPT ![CellOf(to)] = @ + 1]
    /\ tpc' = [tpc EXCEPT ![r] = "move_sub"]
    /\ UNCHANGED <<ptVars, ctorVars, dropVars, chanVars, num_receivers, tail, tpos, tprev, wpc, wexp>>

\* A move that reads the cell it leaves without taking its count out of it.
TMoveFromKeepsCount(r) ==
    /\ tpc[r] = "move_sub"
    /\ tprev' = [tprev EXCEPT ![r] = counters[CellOf(tpos[r])]]
    /\ IF counters[CellOf(tpos[r])] = 1
       THEN /\ tpc' = [tpc EXCEPT ![r] = "move_cas"]
            /\ UNCHANGED tpos
       ELSE /\ tpc' = [tpc EXCEPT ![r] = "live"]
            /\ tpos' = [tpos EXCEPT ![r] = tto[r]]
    /\ UNCHANGED <<ptVars, ctorVars, dropVars, chanVars, counters, num_receivers, tail, tto, wpc, wexp>>

\* move_receiver: previous = from_cell.fetch_sub(1)
TMoveFrom(r) ==
    /\ tpc[r] = "move_sub"
    /\ tprev' = [tprev EXCEPT ![r] = counters[CellOf(tpos[r])]]
    /\ counters' = [counters EXCEPT ![CellOf(tpos[r])] = @ - 1]
    /\ IF counters[CellOf(tpos[r])] = 1
       THEN /\ tpc' = [tpc EXCEPT ![r] = "move_cas"]
            /\ UNCHANGED tpos
       ELSE /\ tpc' = [tpc EXCEPT ![r] = "live"]
            /\ tpos' = [tpos EXCEPT ![r] = tto[r]]
    /\ UNCHANGED <<ptVars, ctorVars, dropVars, chanVars, num_receivers, tail, tto, wpc, wexp>>

\* A move that stores its destination in the tail whatever the tail holds.
TMoveStore(r) ==
    /\ tpc[r] = "move_cas"
    /\ tail' = tto[r]
    /\ tpos' = [tpos EXCEPT ![r] = tto[r]]
    /\ tpc' = [tpc EXCEPT ![r] = "live"]
    /\ UNCHANGED <<ptVars, ctorVars, dropVars, chanVars, counters, num_receivers, tto, tprev, wpc, wexp>>

\* move_receiver: tail.compare_exchange(from, to), and tail_move.notify on success
TMoveCas(r) ==
    /\ tpc[r] = "move_cas"
    /\ tail' = IF tail = tpos[r] THEN tto[r] ELSE tail
    /\ tpos' = [tpos EXCEPT ![r] = tto[r]]
    /\ tpc' = [tpc EXCEPT ![r] = "live"]
    /\ UNCHANGED <<ptVars, ctorVars, dropVars, chanVars, counters, num_receivers, tto, tprev, wpc, wexp>>

\* remove_receiver(at): previous = counters[at % len].fetch_sub(1)
TRemoveCount(r) ==
    /\ tpc[r] = "live"
    /\ tprev' = [tprev EXCEPT ![r] = counters[CellOf(tpos[r])]]
    /\ counters' = [counters EXCEPT ![CellOf(tpos[r])] = @ - 1]
    /\ tpc' = [tpc EXCEPT ![r] = "rm_num"]
    /\ UNCHANGED <<ptVars, ctorVars, dropVars, chanVars, num_receivers, tail, tpos, tto, wpc, wexp>>

\* A removal that lets the tail go once it has removed the last receiver.
TRemoveNumFreesTail(r) ==
    /\ tpc[r] = "rm_num"
    /\ num_receivers' = num_receivers - 1
    /\ tail' = IF num_receivers = 1 THEN MaxSends ELSE tail
    /\ tpc' = [tpc EXCEPT ![r] = "removed"]
    /\ UNCHANGED <<ptVars, ctorVars, dropVars, chanVars, counters, tpos, tto, tprev, wpc, wexp>>

\* remove_receiver: num_receivers.fetch_sub(1); the branch that would chase
\* the tail is empty (the call of chase_tail is commented out).
TRemoveNum(r) ==
    /\ tpc[r] = "rm_num"
    /\ num_receivers' = num_receivers - 1
    /\ tpc' = [tpc EXCEPT ![r] = "removed"]
    /\ UNCHANGED <<ptVars, ctorVars, dropVars, chanVars, counters, tail, tpos, tto, tprev, wpc, wexp>>

\* A producer calls wait_for_tail(expected_tail).
WaitForTail(e) ==
    /\ wpc = "idle"
    /\ wexp' = e
    /\ wpc' = "spin"
    /\ UNCHANGED <<ptVars, ctorVars, dropVars, chanVars, counters, num_receivers, tail, tpc, tpos, tto, tprev>>

\* wait_for_tail: the load of tail that ends the spin loop.
WaitReturn ==
    /\ wpc = "spin"
    /\ tail >= wexp
    /\ wpc' = "done"
    /\ UNCHANGED <<ptVars, ctorVars, dropVars, chanVars, counters, num_receivers, tail, tpc, tpos, tto, tprev, wexp>>

TrackerNext ==
    \/ \E r \in Clients :
        \/ TNewReceiver(r)
        \/ TNewLoad(r)
        \/ TNewCount(r)
        \/ \E to \in 1..MaxSends : TMoveTo(r, to)
        \/ TMoveFrom(r)
        \/ TMoveCas(r)
        \/ TRemoveCount(r)
        \/ TRemoveNum(r)
    \/ \E e \in 1..MaxSends : WaitForTail(e)
    \/ WaitReturn

\* The tracker of a new channel, used by receivers and one waiting producer.
TrackerSpec == Init /\ [][TrackerNext]_vars

\* ------------------------------------------------------------ properties
SlotOf(id) == AsUsize(id) % capacity
Holding(s) == spc[s] \in {"write", "publish"}
AllSendsDone == claimed = MaxSends /\ \A s \in Senders : spc[s] = "idle"
ProducersOf(cl) == {cl[i].val[1] : i \in 1..Len(cl)}
\* The handles whose cursor is a position of the stream (a handle that loaded
\* a killed cell at registration has a negative cursor).
Positioned == {h \in DOMAIN rpc : cursor[h] >= 0}

\* C1: no live receiver loses a message to an overwrite: the slot of a
\* published position that a live receiver has not read yet still holds the
\* message of that position.
NoOverwriteOfUnread ==
    \A h \in Positioned :
        (Live(h) /\ cursor[h] <= committed) => ring[SlotOf(cursor[h])].seq = cursor[h]

\* C2: with one producer and receivers registered before the first send, the
\* i-th recv result of every receiver is the producer's i-th value.
SingleProducerDelivery ==
    \A p \in Senders :
        ProducersOf(claims) \subseteq {p} =>
            \A h \in DOMAIN rpc : \A i \in 1..Len(received[h]) :
                received[h][i].val = <<p, i - 1>>

SingleProducerDelivered ==
    /\ AllSendsDone
    /\ Cardinality(ProducersOf(claims)) = 1
    /\ \E i \in 1..Len(claims) : claims[i].id >= capacity
    /\ \A h \in DOMAIN rpc : Len(received[h]) = MaxSends

\* C3: the i-th recv of a receiver registered at start returns the message
\* with sequence id start + i - 1 (stated for the handles whose cursor is a
\* position of the stream).
RecvInSequence ==
    \A h \in Positioned : \A i \in 1..Len(received[h]) :
        received[h][i].seq = rstart[h] + i - 1

\* C4: two receivers that read the same sequence id obtain the same value, and
\* the ids one receiver obtains increase.
SameTotalOrder ==
    /\ \A g, h \in Positioned : \A i \in 1..Len(received[g]) : \A j \in 1..Len(received[h]) :
           rstart[g] + i = rstart[h] + j => received[g][i].val = received[h][j].val
    /\ \A h \in Positioned : \A i, j \in 1..Len(received[h]) :
           i < j => received[h][i].seq < received[h][j].seq

PerProducerOrder ==
    \A h \in Positioned : \A i, j \in 1..Len(received[h]) :
        (i < j /\ received[h][i].val[1] = received[h][j].val[1])
            => received[h][i].val[2] <= received[h][j].val[2]

\* C7: committed only ever moves from id - 1 to id, and every id <= committed
\* has had its slot write completed.
PublishedInOrder ==
    /\ [](\A id \in 0..committed : id \in written)
    /\ [][committed' # committed => committed' = committed + 1]_vars

LaterIdWrittenFirst ==
    \E s \in Senders :
        /\ spc[s] = "publish"
        /\ sid[s] \in written
        /\ sid[s] - 1 \notin written
        /\ committed < sid[s] - 1

\* C8: the ids handed out are 0, 1, .., claimed - 1 in the order of the
\* claims, and two producers in the middle of a send hold different ids.
ClaimsDistinctContiguous ==
    /\ Len(claims) = claimed
    /\ \A i \in 1..Len(claims) : claims[i].id = i - 1
    /\ \A s, t \in Senders :
           (s # t /\ spc[s] # "idle" /\ spc[t] # "idle") => sid[s] # sid[t]

ConcurrentClaims ==
    /\ claimed = MaxSends
    /\ \A s \in Senders : spc[s] \notin {"idle", "notify"}

\* C9: between its tail check and its publish a producer is alone on its
\* slot: no other producer is between tail check and publish on the same
\* slot, and no receiver is about to read it.
ExclusiveSlotAccess ==
    \A s \in Senders : Holding(s) =>
        /\ \A t \in Senders \ {s} : Holding(t) => SlotOf(sid[t]) # SlotOf(sid[s])
        /\ \A h \in DOMAIN rpc : rpc[h] = "read" => SlotOf(cursor[h]) # SlotOf(sid[s])

\* C10: a send that waits for the slowest receiver can go on once every live
\* receiver has advanced past the slot it is about to overwrite.
BlockedSendCompletes ==
    \A s \in Senders :
        (/\ spc[s] = "parked"
         /\ \A i \in 1..Len(cells) : cells[i] # DEAD_CELL => AsIsize(cells[i]) > TailOf(s))
            => ENABLED SenderNext(s)

InRecvLoop(h) == rpc[h] \in {"listen", "try2", "wait", "try3"}

\* C11: under fair scheduling a receiver inside the wait loop of recv whose
\* next id has been published gets to read it: no interleaving of publish and
\* notify with listen, re-check and wait leaves it parked.
RecvWakesUp ==
    \A h \in Readers : (InRecvLoop(h) /\ cursor[h] <= committed) ~> (rpc[h] = "read")

PublishedWhileParked ==
    \E h \in Readers : rpc[h] = "wait" /\ rlisten[h] = 1 /\ cursor[h] <= committed

TrackerQuiet == \A r \in Clients : tpc[r] \in {"none", "live", "removed"}
LiveClients == {r \in Clients : tpc[r] = "live"}

\* C12: a producer that waits for the tail can go on once the slowest
\* receiver is dropped and the remaining receivers are all at or past the
\* position it waits for: after the drop the tail is at least that position.
DropUnblocksProducer ==
    (/\ wpc = "spin"
     /\ TrackerQuiet
     /\ \E r \in Clients : tpc[r] = "removed"
     /\ LiveClients # {}
     /\ \A r \in LiveClients : tpos[r] >= wexp)
        => tail >= wexp

\* The handles made by ReceiverCore::from after at least two messages were
\* published: rat is then the watermark the constructor loaded.
LateJoiners == {h \in Positioned : rparent[h] = 0 /\ rat[h] >= 1}

\* C13: a receiver registered after messages 0..k-1 were published never
\* receives any of them: everything it receives has an id above the
\* watermark k-1 that its registration loaded.
LateJoinerSkipsHistory ==
    \A h \in LateJoiners :
        \A i \in 1..Len(received[h]) : received[h][i].seq > rat[h]

\* C14: the first recv of a receiver created from a sender when the watermark
\* is w >= 0 returns the message with id w.
FirstRecvIsWatermark ==
    \A h \in LateJoiners :
        Len(received[h]) >= 1 => received[h][1].seq = rat[h]

\* The handles made by ReceiverCore::clone whose construction has returned
\* and that are not inside a recv call.
Clones == {h \in DOMAIN rpc : rparent[h] # 0 /\ rpc[h] = "idle"}

\* C15: a clone made of a receiver at cursor c is a receiver at the same
\* point of the stream: its cursor starts at c and its recv calls return the
\* ids c, c+1, ... one after the other.
CloneAtSamePoint ==
    \A h \in Clones :
        /\ cursor[h] = rat[h] + Len(received[h])
        /\ \A i \in 1..Len(received[h]) : received[h][i].seq = rat[h] + i - 1

\* Steps of one reader, read off the state: batch_recv passes its two tests,
\* batch_recv returns Ok(()), batch_recv returns an error it did not return
\* the call before.
BatchStarts(h) == rpc[h] = "idle" /\ rpc'[h] = "copy"
BatchEnds(h) == rpc[h] \in {"copy", "copy2"} /\ rpc'[h] = "idle"
BatchFails(h) ==
    /\ rpc[h] = "idle"
    /\ rres'[h] # rres[h]
    /\ rres'[h] \in {"DestinationFull", "BatchNoNewData"}
\* The message of id i in a run with producer 1 only.
MessageOf(i) == [seq |-> i, val |-> <<1, i>>]

\* C16: batch_recv at cursor c with watermark p >= c and r > 0 free places
\* appends exactly min(p - c + 1, r) values to the vector, the messages c,
\* c+1, ... in order, also across the end of the ring, and keeps what the
\* vector held.
BatchRecvAppends ==
    [][\A h \in Readers :
        /\ Len(out'[h]) >= Len(out[h])
        /\ SubSeq(out'[h], 1, Len(out[h])) = out[h]
        /\ BatchStarts(h) =>
              rn'[h] = Min(committed - cursor[h] + 1, outcap[h] - Len(out[h]))
        /\ BatchEnds(h) =>
              LET kept == Len(out'[h]) - rn[h]
              IN  /\ kept >= 0
                  /\ rres'[h] = "BatchOk"
                  /\ \A i \in 1..rn[h] : out'[h][kept + i] = MessageOf(cursor[h] + i - 1)
      ]_vars

\* One call has filled a vector with two messages that lie across the end
\* of the ring.
WrappedBatchDelivered ==
    \E h \in Readers :
        /\ rpc[h] = "idle" /\ rres[h] = "BatchOk"
        /\ capacity >= 2 /\ rn[h] = 2 /\ Len(out[h]) = 2
        /\ out[h][1].seq % capacity = capacity - 1

\* C17: a batch_recv that delivered n messages has advanced the cursor and
\* the shared cell by n: for a reader registered at 0 that is between calls,
\* the cursor and the cell equal the number of messages delivered so far.
BatchAdvancesCursor ==
    \A h \in Readers :
        rpc[h] = "idle" =>
            /\ cursor[h] = Len(received[h]) + Len(out[h])
            /\ AsIsize(cells[rcell[h] + 1]) = cursor[h]

ErrorLeavesState(h) ==
    /\ out'[h] = out[h]
    /\ cursor'[h] = cursor[h]
    /\ rpc'[h] = rpc[h]
    /\ UNCHANGED <<coreVars, trackerVars>>

\* C18 as stated: batch_recv returns DestinationFull when the vector has no
\* remaining capacity and NoNewData when the cursor is beyond the watermark,
\* and both leave the vector, the cursor and the trackers as they were.
BatchRecvErrors ==
    [][\A h \in Readers :
        (BatchStarts(h) \/ BatchFails(h)) =>
            /\ Remaining(h) = 0 => rres'[h] = "DestinationFull"
            /\ cursor[h] > committed => rres'[h] = "BatchNoNewData"
            /\ BatchFails(h) => ErrorLeavesState(h)
      ]_vars

\* C18: batch_recv returns DestinationFull when the vector has no remaining
\* capacity, and NoNewData when the vector has remaining capacity and the
\* cursor is beyond the watermark; both leave the vector, the cursor and the
\* trackers as they were.
BatchRecvErrorsInOrder ==
    [][\A h \in Readers :
        (BatchStarts(h) \/ BatchFails(h)) =>
            /\ Remaining(h) = 0 => rres'[h] = "DestinationFull"
            /\ (Remaining(h) > 0 /\ cursor[h] > committed) => rres'[h] = "BatchNoNewData"
            /\ BatchFails(h) => ErrorLeavesState(h)
      ]_vars

\* batch_recv has answered DestinationFull for an allocated, full vector while
\* the cursor was beyond the watermark.
FullBeforeNoData ==
    \E h \in Readers :
        /\ rres[h] = "DestinationFull" /\ rpc[h] = "idle"
        /\ outcap[h] > 0 /\ Remaining(h) = 0
        /\ cursor[h] > committed

\* C19: try_recv never blocks; it returns NoNewData exactly when the cursor is
\* greater than the watermark, and then nothing has changed; otherwise it
\* returns the message at the cursor and advances the cursor by one.
TryRecvContract ==
    /\ [](\A h \in Readers : rpc[h] \in {"tread", "tinc"} => ENABLED TryRecvNext(h))
    /\ [][\A h \in Readers :
            /\ (rres'[h] = "TryNoNewData" /\ rres[h] # "TryNoNewData") =>
                  /\ cursor[h] > committed
                  /\ cursor'[h] = cursor[h] /\ rpc'[h] = rpc[h] /\ received'[h] = received[h]
                  /\ UNCHANGED <<coreVars, trackerVars>>
            /\ (rpc[h] = "idle" /\ rpc'[h] = "tread") => cursor[h] <= committed
            /\ (rpc[h] = "tinc" /\ rpc'[h] = "idle") =>
                  /\ rres'[h] = "TryOk"
                  /\ cursor'[h] = cursor[h] + 1
                  /\ received[h][Len(received[h])] = MessageOf(cursor[h])
       ]_vars

\* try_recv has returned a message and the reader has caught up with the
\* watermark.
TryRecvDelivered ==
    \E h \in Readers :
        /\ rres[h] = "TryOk" /\ rpc[h] = "idle"
        /\ received[h] # <<>>
        /\ cursor[h] > committed

\* C20: send_batch waits until there is room for all its values: none of
\* them is written into a slot whose message a live receiver has not read,
\* so every published position from a live receiver's cursor on still holds
\* its own message.
SendBatchKeepsUnread ==
    \A h \in Readers :
        Live(h) => \A pos \in cursor[h]..committed : ring[SlotOf(pos)].seq = pos

\* C21: send_batch with more values than the capacity returns InputTooLarge
\* and nothing else happens: a call fails exactly when data.len() > capacity,
\* and neither the failing claim nor its return changes claimed, committed,
\* the ring, the receiver cells or the sender's own ids, so the sender is the
\* one it was before the call.
TooLargeClaimsNothing ==
    [][\A s \in Senders :
        /\ (spc[s] = "idle" /\ spc'[s] # "idle") =>
              (spc'[s] = "too_large" <=> sn'[s] > capacity)
        /\ (spc'[s] # spc[s] /\ "too_large" \in {spc[s], spc'[s]}) =>
              /\ UNCHANGED <<coreVars, trackerVars, ghostVars>>
              /\ sid'[s] = sid[s] /\ snth'[s] = snth[s] /\ scached'[s] = scached[s]
              /\ sk'[s] = sk[s]
        /\ (spc[s] = "too_large" /\ spc'[s] # "too_large") =>
              (spc'[s] = "idle" /\ sn'[s] = 1)
      ]_vars

\* A send_batch is failing on a channel that already carries published
\* messages and has no send under way.
SendAfterTooLarge ==
    \E s \in Senders :
        /\ spc[s] = "too_large"
        /\ committed >= 0
        /\ claimed = committed + 1

ConstructionDone == cres \in {"Ok", "InvalidSize", "BufferTooBig"}
IsPowerOfTwo(c) == \E k \in 0..WordBits : c = Pow2(k)
\* The sizes whose next power of two is a positive signed integer.
WithinLimit(n) == \E k \in 0..(WordBits - 2) : n <= Pow2(k)

\* C22: channel(n) with n >= 1 within the limit succeeds, and its capacity is
\* the smallest power of two >= n.
CapacityIsNextPowerOfTwo ==
    /\ (ConstructionDone /\ size >= 1 /\ WithinLimit(size)) => cres = "Ok"
    /\ (cres = "Ok" /\ size >= 1) =>
          /\ IsPowerOfTwo(capacity)
          /\ capacity >= size
          /\ \A k \in 0..WordBits : Pow2(k) >= size => Pow2(k) >= capacity
          /\ DOMAIN ring = 0..(capacity - 1)

\* channel(5) has returned a channel of capacity 8.
FiveGivesEight == size = 5 /\ cres = "Ok" /\ capacity = 8

\* C23: channel(0) fails with InvalidSize and yields no handle.
ZeroSizeIsInvalid ==
    (size = 0 /\ ConstructionDone) =>
        /\ cres = "InvalidSize"
        /\ \A h \in DOMAIN rpc : rpc[h] = "none"

\* C24: channel(n) fails with BufferTooBig when n, rounded up to a power of
\* two, exceeds isize::MAX, also when the rounding overflows usize; no ring
\* and no handle exists then.
TooBigIsRefused ==
    (ConstructionDone /\ ~WithinLimit(size)) =>
        /\ cres = "BufferTooBig"
        /\ capacity = 0
        /\ \A h \in DOMAIN rpc : rpc[h] = "none"

\* channel(isize::MAX + 1) has returned BufferTooBig.
OneAboveLimitRefused == size = ISIZE_MAX + 1 /\ cres = "BufferTooBig"

\* C25: after the ring is dropped, the payload held by every written slot has
\* been dropped exactly once and no slot that was never written has been
\* dropped.
RingDropsWrittenSlotsOnce ==
    rdropped =>
        /\ drops[-1] = 0
        /\ \A i \in DOMAIN ring : ring[i].seq >= 0 => drops[ring[i].seq] = 1

RECURSIVE SumDrops(_)
SumDrops(i) == IF i < 0 THEN 0 ELSE drops[i] + SumDrops(i - 1)

\* The last step of send by s: the notify, the forget or drop, the return.
SendReturns(s) == spc[s] = "notify" /\ spc'[s] = "idle"

\* C26: a send never runs the destructor of uninitialized contents; a send of
\* id seq >= capacity drops the payload of id seq - capacity, once, in the
\* step after its publish, and a send of id seq < capacity drops nothing; with
\* no send under way the sends have dropped max(0, total_sent - capacity)
\* payloads.
SendDropsPreviousOccupant ==
    [][/\ drops'[-1] = 0
       /\ \A i \in DOMAIN drops : drops'[i] <= 1
       /\ \A s \in Senders :
             /\ (SendReturns(s) /\ sid[s] >= capacity) =>
                   drops' = [drops EXCEPT ![sid[s] - capacity] = 1]
             /\ (SendReturns(s) /\ sid[s] < capacity) => drops' = drops
       /\ (\A s \in Senders : ~SendReturns(s)) => drops' = drops
       /\ (\A s \in Senders : spc'[s] = "idle") =>
             SumDrops(MaxSends - 1)' =
                 (IF claimed' > capacity' THEN claimed' - capacity' ELSE 0)
      ]_vars

\* The receivers that hold a position of the tracker: registered, and not in
\* the middle of their removal.
Tracked(r) == tpc[r] \in {"live", "move_sub", "move_cas"}
\* The position of a tracked receiver: it is at `to` once it has left `from`.
CursorOf(r) == IF tpc[r] = "move_cas" THEN tto[r] ELSE tpos[r]

\* C27: with no tracker operation under way, the tail is at most the cursor
\* of every live receiver, whatever registrations, advances (also by more
\* than one position) and deregistrations came before.
TailIsLowerBound ==
    TrackerQuiet => \A r \in LiveClients : tail <= tpos[r]

\* C28: every cell counts at least the receivers that are at a position of
\* that cell, also between the increment and the decrement of an advance: the
\* cell of a position a live receiver occupies never reads zero.
CountedAtPosition ==
    \A c \in DOMAIN counters :
        counters[c] >= Cardinality({r \in Clients : Tracked(r) /\ CellOf(CursorOf(r)) = c})

\* A receiver is between the two steps of an advance by more than one position.
BetweenStepsOfJump ==
    \E r \in Clients :
        /\ tpc[r] = "move_sub"
        /\ tto[r] > tpos[r] + 1
        /\ counters[CellOf(tpos[r])] = 1
        /\ counters[CellOf(tto[r])] = 1

\* C29: the tail never decreases.
TailNeverDecreases == [][tail' >= tail]_vars

\* The tail has moved while a receiver that registered at a tail since
\* passed is behind it, and a receiver has deregistered.
TailMovedPastStraggler ==
    /\ tail >= 1
    /\ \E r \in Clients : Tracked(r) /\ tpos[r] < tail
    /\ \E r \in Clients : tpc[r] \in {"rm_num", "removed"}

\* C30: with no tracker operation under way and a live receiver, the tail is
\* the minimum of the cursors of the live receivers.
QuiescentTailIsMin ==
    (TrackerQuiet /\ LiveClients # {}) =>
        /\ \A r \in LiveClients : tail <= tpos[r]
        /\ \E r \in LiveClients : tail = tpos[r]

\* The step that completes the registration of r: new_receiver returns.
RegistrationCompletes(r) == tpc[r] = "new_add" /\ tpc'[r] = "live"

\* C31: a registration that completes while other receivers advance yields a
\* receiver whose cursor is at or above the tail of that moment, counted in
\* the cell of its cursor (new_receiver has no failing return).
RegistrationNotBelowTail ==
    [][\A r \in Clients : RegistrationCompletes(r) =>
            /\ tpos'[r] >= tail'
            /\ counters'[CellOf(tpos'[r])] >= 1
      ]_vars

\* The last step of remove_receiver by r, in the case the source comments
\* with "we have just removed the tail receiver": its decrement emptied the
\* cell, the receiver was at the tail, and receivers are left; no other call
\* of the tracker is under way.
VacatesTail(r) ==
    /\ tpc[r] = "rm_num" /\ tpc'[r] = "removed"
    /\ tprev[r] = 1
    /\ tpos[r] = tail
    /\ num_receivers' > 0
    /\ \A q \in Clients \ {r} : tpc[q] \in {"none", "live", "removed"}
    /\ \E q \in Clients : tpc[q] = "live"

\* C32: the deregistration that vacates the tail moves the tail forward over
\* cells that count no receiver only, and leaves it on the first position
\* whose cell counts a receiver.
TailChaseStopsAtReceiver ==
    [][\A r \in Clients : VacatesTail(r) =>
            /\ tail' >= tail
            /\ \A p \in tail..(tail' - 1) : counters'[CellOf(p)] = 0
            /\ counters'[CellOf(tail')] > 0
      ]_vars

\* Every receiver has been dropped and the producer spins in wait_for_tail
\* on a tail below the one it expects.
BlockedWithNoReceiver ==
    /\ \A r \in Clients : tpc[r] = "removed"
    /\ wpc = "spin"
    /\ tail < wexp

\* C33: the deregistration that removes the last receiver leaves the tail
\* where it was, and a producer that waits for the tail when every receiver
\* is gone waits forever: the tail stays and wait_for_tail does not return.
LastDropLeavesProducerBlocked ==
    [][/\ \A r \in Clients :
            (tpc[r] = "rm_num" /\ tpc'[r] = "removed" /\ num_receivers' = 0) =>
                (tail' = tail /\ wpc' = wpc)
       /\ BlockedWithNoReceiver => (BlockedWithNoReceiver' /\ tail' = tail)
      ]_vars

\* Every receiver is gone, the tail rests on the position one of them left,
\* and the producer spins on it.
ProducerOutlivesReceivers ==
    /\ BlockedWithNoReceiver
    /\ num_receivers = 0
    /\ \E r \in Clients : tpos[r] = tail

\* C34: the published watermark is below claimed in every state: no id is
\* published that has not been claimed.
PublishedBelowClaimed == published < claimed

\* Every id handed out has been published: published is claimed - 1.
AllClaimsPublished == claimed = MaxSends /\ published = claimed - 1

\* The producers whose make_claim has returned and whose commit_claim has not
\* been called yet.
InClaim == {p \in Senders : spc[p] = "claimed"}

\* C37: make_claim returns id c only when committed = c - 1; at most one
\* producer is between the return of make_claim and its commit_claim; each
\* commit raises committed by one; while a producer is there, no make_claim
\* of a later id returns.
ProducersSerialised ==
    [][/\ Cardinality(InClaim') <= 1
       /\ \A p \in Senders :
             (spc[p] = "claim_spin" /\ spc'[p] = "claimed") => committed = sid[p] - 1
       /\ committed' # committed => committed' = committed + 1
       /\ \A p \in InClaim : \A q \in Senders :
             (spc[q] = "claim_spin" /\ sid[q] > sid[p]) => spc'[q] = "claim_spin"
      ]_vars

\* One producer holds its claim while the other spins in make_claim on a
\* later id.
LaterClaimWaits ==
    \E p \in InClaim : \E q \in Senders : spc[q] = "claim_spin" /\ sid[q] > sid[p]

\* The positions of the receivers that are not dead.
LivePositions == {AsIsize(cells[i]) : i \in {j \in 1..Len(cells) : cells[j] # DEAD_CELL}}

\* C35: whenever a sender is about to call slowest(min), the value it gets is
\* above min only if every live receiver is above min, and a value at or
\* below min is the position of a live receiver.
SlowestIsSound ==
    \A s \in Senders : spc[s] \in {"slowest0", "slowest1"} =>
        LET min == TailOf(s)
            r == Slowest(min)
        IN  /\ r.value > min => \A pos \in LivePositions : pos > min
            /\ r.value <= min => r.value \in LivePositions

\* The last step of send_batch by s: the notify, the end of data, the return.
SendBatchReturns(s) == spc[s] = "bnotify" /\ spc'[s] = "idle"

\* C36: when a send_batch returns, no never-written contents have been
\* dropped, and for each of its elements with id >= capacity the payload of
\* id - capacity, which it replaced, has been dropped exactly once.
BatchDropsPreviousOccupants ==
    [][\A s \in Senders : SendBatchReturns(s) =>
            /\ drops'[-1] = 0
            /\ \A k \in 0..(sn[s] - 1) :
                  sid[s] + k >= capacity => drops'[sid[s] + k - capacity] = 1
            /\ \A i \in 0..(MaxSends - 1) :
                  i > sid[s] + sn[s] - 1 - capacity => drops'[i] = 0
      ]_vars

\* The handles whose cell holds their position: new_receiver has initialised
\* the cell and the handle has not been dropped.
HoldsCell(h) == Live(h) \/ rpc[h] = "load"

\* C38: the cell of a receiver that new_receiver has initialised is not
\* marked dead while the receiver lives, and no cell index belongs to two
\* live receivers.
LiveReceiverIsTracked ==
    \A h \in DOMAIN rpc : HoldsCell(h) =>
        /\ cells[rcell[h] + 1] # DEAD_CELL
        /\ \A g \in DOMAIN rpc \ {h} : HoldsCell(g) => rcell[g] # rcell[h]

RECURSIVE SumCounters(_)
SumCounters(c) == IF c < 0 THEN 0 ELSE counters[c] + SumCounters(c - 1)

\* C39: no counter goes below zero; with no tracker operation under way the
\* counters add up to the number of live receivers, which is num_receivers;
\* new_receiver adds one, move_receiver nothing, remove_receiver takes one.
RefcountsConserved ==
    /\ \A c \in DOMAIN counters : counters[c] >= 0
    /\ num_receivers >= 0
    /\ TrackerQuiet =>
          /\ SumCounters(capacity) = Cardinality(LiveClients)
          /\ num_receivers = Cardinality(LiveClients)

\* A receiver has registered, one has moved and one has been removed, and no
\* tracker operation is under way.
QuietAfterAllOperations ==
    /\ TrackerQuiet
    /\ \E r \in Clients : tpc[r] = "removed"
    /\ \E r \in Clients : tpc[r] = "live" /\ tpos[r] > 0

\* C40: the receivers counted in one cell are at one position: two tracked
\* receivers at different positions are never counted in the same cell.
CellDenotesOnePosition ==
    \A r, q \in Clients :
        (Tracked(r) /\ Tracked(q) /\ CellOf(CursorOf(r)) = CellOf(CursorOf(q)))
            => CursorOf(r) = CursorOf(q)

====
